---- MODULE Spec2Model ----
(* Model of the AI study guide application (src/app.py): text extraction,  *)
(* paragraph-packing chunker, sequential generation pipeline, flashcard    *)
(* parser and the flip-card viewer.  Strings are sequences of characters;  *)
(* a markup tag is one element "<b>" of such a sequence.                   *)
EXTENDS Integers, Sequences, FiniteSets, TLC

VARIABLES text, chunk_size, chunks, cpc,
          pairs, lines, raw_text, flashcards, ppc,
          text_chunks, generation_type, difficulty, loop_i, full_response,
          propagated, glog, gpc,
          deck, currentIndex, dom, events,
          uploaded_file, apc, error_shown, summaries, qa_pairs, rendered

chunkerVars == <<text, chunk_size, chunks, cpc>>
parserVars == <<pairs, lines, raw_text, flashcards, ppc>>

genVars == <<text_chunks, generation_type, difficulty, loop_i, full_response,
             propagated, glog, gpc>>
viewerVars == <<deck, currentIndex, dom, events>>

appVars == <<uploaded_file, apc, error_shown, summaries, qa_pairs, rendered>>

vars == <<chunkerVars, parserVars, genVars, viewerVars, appVars>>

(* ------------------------------ bounds --------------------------------- *)
MaxTextLen == 5
MaxChunkSize == 4
MaxPairs == 2
MaxLines == 4
MaxChunks == 3
MaxDeck == 3
MaxClicks == 6

(* --------------------------- string helpers ---------------------------- *)
NL == "\n"

RECURSIVE SeqsUpTo(_, _)
SeqsUpTo(S, n) ==
    IF n = 0 THEN {<<>>}
    ELSE LET shorter == SeqsUpTo(S, n - 1)
         IN  shorter \cup {Append(s, c) : s \in {t \in shorter : Len(t) = n - 1}, c \in S}

RECURSIVE Flatten(_)
Flatten(ss) == IF ss = <<>> THEN <<>> ELSE Head(ss) \o Flatten(Tail(ss))

\* index of the first newline at or after position from, Len(s)+1 when none
NextNL(s, from) ==
    CHOOSE j \in from..(Len(s) + 1) :
        /\ (j = Len(s) + 1 \/ s[j] = NL)
        /\ \A k \in from..(j - 1) : s[k] # NL

RECURSIVE SplitFrom(_, _)
SplitFrom(s, from) ==
    LET j == NextNL(s, from)
    IN  IF j = Len(s) + 1 THEN <<SubSeq(s, from, Len(s))>>
        ELSE <<SubSeq(s, from, j - 1)>> \o SplitFrom(s, j + 1)

\* str.split('\n')
split(s) == SplitFrom(s, 1)

RECURSIVE Join(_, _)
Join(ss, sep) ==
    IF ss = <<>> THEN <<>>
    ELSE IF Len(ss) = 1 THEN ss[1]
    ELSE ss[1] \o sep \o Join(Tail(ss), sep)

IsSpace(c) == c \in {" ", NL}

\* str.strip()
strip(s) ==
    IF \A i \in 1..Len(s) : IsSpace(s[i]) THEN <<>>
    ELSE LET first == CHOOSE i \in 1..Len(s) :
                          ~IsSpace(s[i]) /\ \A k \in 1..(i - 1) : IsSpace(s[k])
             last  == CHOOSE i \in 1..Len(s) :
                          ~IsSpace(s[i]) /\ \A k \in (i + 1)..Len(s) : IsSpace(s[k])
         IN  SubSeq(s, first, last)

LowerChar(c) == IF c = "T" THEN "t" ELSE IF c = "D" THEN "d" ELSE c

\* str.lower()
lower(s) == [i \in 1..Len(s) |-> LowerChar(s[i])]

\* str.startswith(prefix)
startswith(s, prefix) ==
    Len(s) >= Len(prefix) /\ SubSeq(s, 1, Len(prefix)) = prefix

(* ------------------------------ idle parts ----------------------------- *)
ParserIdle ==
    /\ pairs = <<>>
    /\ lines = <<>>
    /\ raw_text = <<>>
    /\ flashcards = <<>>
    /\ ppc = "idle"

GenIdle ==
    /\ text_chunks = <<>>
    /\ generation_type = "summary"
    /\ difficulty = "Beginner"
    /\ loop_i = 0
    /\ full_response = <<>>
    /\ propagated = FALSE
    /\ glog = <<>>
    /\ gpc = "idle"

BlankDom == [front |-> <<>>, back |-> <<>>, is_flipped |-> FALSE,
             counter |-> <<0, 0>>, prev_disabled |-> FALSE, next_disabled |-> FALSE]

ViewerIdle ==
    /\ deck = <<>>
    /\ currentIndex = 0
    /\ dom = BlankDom
    /\ events = <<>>

NoFile == [ext |-> "", pages |-> <<>>, content |-> <<>>, rows |-> <<>>]

AppIdle ==
    /\ uploaded_file = NoFile
    /\ apc = "idle"
    /\ error_shown = FALSE
    /\ summaries = <<>>
    /\ qa_pairs = <<>>
    /\ rendered = "nothing"

(* ------------------------------ chunker -------------------------------- *)
\* one iteration of the paragraph loop, with the overflow test off by one
ChunkLoopBodyInclusive(st, paragraph, size) ==
    IF Len(st.current_chunk) + Len(paragraph) + 1 <= size
    THEN [chunks |-> st.chunks,
          current_chunk |-> st.current_chunk \o paragraph \o <<NL>>]
    ELSE [chunks |-> Append(st.chunks, st.current_chunk),
          current_chunk |-> paragraph \o <<NL>>]

\* one iteration of the paragraph loop
ChunkLoopBody(st, paragraph, size) ==
    IF Len(st.current_chunk) + Len(paragraph) + 1 < size
    THEN [chunks |-> st.chunks,
          current_chunk |-> st.current_chunk \o paragraph \o <<NL>>]
    ELSE [chunks |-> Append(st.chunks, st.current_chunk),
          current_chunk |-> paragraph \o <<NL>>]

RECURSIVE ChunkLoop(_, _, _)
ChunkLoop(st, paragraphs, size) ==
    IF paragraphs = <<>> THEN st
    ELSE ChunkLoop(ChunkLoopBody(st, Head(paragraphs), size), Tail(paragraphs), size)

\* the final emit that forgets the accumulator
ChunkFinalDrop(st) == st.chunks

\* the final emit of the non-empty accumulator
ChunkFinal(st) ==
    IF st.current_chunk # <<>> THEN Append(st.chunks, st.current_chunk) ELSE st.chunks

chunk_text(t, size) ==
    ChunkFinal(ChunkLoop([chunks |-> <<>>, current_chunk |-> <<>>], split(t), size))

TextChars == {"a", NL}

ChunkerIdle ==
    /\ text = <<>>
    /\ chunk_size = 0
    /\ chunks = <<>>
    /\ cpc = "idle"

InitChunk ==
    /\ text \in SeqsUpTo(TextChars, MaxTextLen)
    /\ chunk_size \in 0..MaxChunkSize
    /\ chunks = <<>>
    /\ cpc = "ready"
    /\ ParserIdle /\ GenIdle /\ ViewerIdle /\ AppIdle

RunChunkText ==
    /\ cpc = "ready"
    /\ chunks' = chunk_text(text, chunk_size)
    /\ cpc' = "done"
    /\ UNCHANGED <<text, chunk_size, parserVars, genVars, viewerVars, appVars>>

NextChunk == RunChunkText

SpecChunk == InitChunk /\ [][NextChunk]_vars

\* number of newlines in a chunk = number of paragraphs it holds
Paragraphs(c) == Cardinality({i \in 1..Len(c) : c[i] = NL})

\* C2: the chunks, concatenated in order, are the text plus one trailing
\* newline, and every non-empty chunk ends at a paragraph boundary, so each
\* paragraph is whole, present once, in order and inside one chunk.
ChunksReproduceText ==
    cpc = "done" =>
        /\ Flatten(chunks) = text \o <<NL>>
        /\ \A i \in 1..Len(chunks) :
              chunks[i] = <<>> \/ chunks[i][Len(chunks[i])] = NL

ChunksReproduceTextWitness ==
    /\ cpc = "done"
    /\ Len(chunks) >= 3
    /\ \E i \in 1..Len(chunks) : Paragraphs(chunks[i]) >= 2

\* C3 as stated: a chunk not shorter than maxSize holds one paragraph that is
\* itself longer than maxSize.
ChunkBoundOnlyOverlong ==
    cpc = "done" =>
        \A i \in 1..Len(chunks) :
            \/ Len(chunks[i]) < chunk_size
            \/ (Paragraphs(chunks[i]) = 1 /\ Len(chunks[i]) - 1 > chunk_size)

\* C3 amended: for maxSize >= 1 every chunk is shorter than maxSize unless it
\* holds exactly one paragraph whose length is at least maxSize - 1.
ChunkBoundSingleParagraph ==
    (cpc = "done" /\ chunk_size >= 1) =>
        \A i \in 1..Len(chunks) :
            \/ Len(chunks[i]) < chunk_size
            \/ (Paragraphs(chunks[i]) = 1 /\ Len(chunks[i]) - 1 >= chunk_size - 1)

ChunkBoundWitness ==
    /\ cpc = "done"
    /\ chunk_size >= 1
    /\ \E i \in 1..Len(chunks) :
          Paragraphs(chunks[i]) = 1 /\ Len(chunks[i]) = chunk_size
    /\ \E i \in 1..Len(chunks) :
          Paragraphs(chunks[i]) >= 2 /\ Len(chunks[i]) = chunk_size - 1

(* -------------------------- flashcard parser --------------------------- *)
Tags == {"<b>"}

\* BeautifulSoup(...).get_text(): the text with the markup tags removed
get_text(s) == SelectSeq(s, LAMBDA c : c \notin Tags)

TermKw == <<"t", "e", "r", "m", ":">>
DefinitionKw == <<"d", "e", "f", "i", "n", "i", "t", "i", "o", "n", ":">>

None == [set |-> FALSE, val |-> <<>>]
Some(v) == [set |-> TRUE, val |-> v]
\* Python truth value of an optional string
Truthy(x) == x.set /\ x.val # <<>>

\* the loop body that keeps the pending definition across a new term
ParseLineKeepDefinition(st, rawline) ==
    LET line == strip(rawline)
    IN  IF startswith(lower(line), TermKw)
        THEN [flashcards |->
                 IF Truthy(st.term) /\ Truthy(st.definition)
                 THEN Append(st.flashcards,
                             [term |-> st.term.val, definition |-> st.definition.val])
                 ELSE st.flashcards,
              term |-> Some(strip(SubSeq(line, 5 + 1, Len(line)))),
              definition |-> st.definition]
        ELSE IF startswith(lower(line), DefinitionKw)
        THEN IF Truthy(st.term)
             THEN [st EXCEPT !.definition = Some(strip(SubSeq(line, 11 + 1, Len(line))))]
             ELSE st
        ELSE st

\* one iteration of the line loop
ParseLine(st, rawline) ==
    LET line == strip(rawline)
    IN  IF startswith(lower(line), TermKw)
        THEN [flashcards |->
                 IF Truthy(st.term) /\ Truthy(st.definition)
                 THEN Append(st.flashcards,
                             [term |-> st.term.val, definition |-> st.definition.val])
                 ELSE st.flashcards,
              term |-> Some(strip(SubSeq(line, 5 + 1, Len(line)))),
              definition |-> None]
        ELSE IF startswith(lower(line), DefinitionKw)
        THEN IF Truthy(st.term)
             THEN [st EXCEPT !.definition = Some(strip(SubSeq(line, 11 + 1, Len(line))))]
             ELSE st
        ELSE st

RECURSIVE ParseLoop(_, _)
ParseLoop(st, text_lines) ==
    IF text_lines = <<>> THEN st
    ELSE ParseLoop(ParseLine(st, Head(text_lines)), Tail(text_lines))

\* the epilogue that forgets the last pending card
ParseFinalDrop(st) == st.flashcards

\* the emit of the last pending card
ParseFinal(st) ==
    IF Truthy(st.term) /\ Truthy(st.definition)
    THEN Append(st.flashcards, [term |-> st.term.val, definition |-> st.definition.val])
    ELSE st.flashcards

parse_flashcards(raw) ==
    LET text_lines == split(strip(get_text(raw)))
    IN  ParseFinal(ParseLoop([flashcards |-> <<>>, term |-> None, definition |-> None],
                             text_lines))

RunParseFlashcards ==
    /\ ppc = "ready"
    /\ flashcards' = parse_flashcards(raw_text)
    /\ ppc' = "done"
    /\ UNCHANGED <<pairs, lines, raw_text, chunkerVars, genVars, viewerVars, appVars>>

(* inputs of the round trip: N pairs rendered as alternating lines *)
Payloads == {<<>>, <<"a">>, <<"b">>, <<" ", "a">>, <<"a", " ">>,
             <<"<b>", "a">>, <<"a", " ", "b">>}

TermLine(x) == <<"T", "e", "r", "m", ":", " ">> \o x
DefinitionLine(y) == <<"D", "e", "f", "i", "n", "i", "t", "i", "o", "n", ":", " ">> \o y

RECURSIVE PairLines(_)
PairLines(ps) ==
    IF ps = <<>> THEN <<>>
    ELSE <<TermLine(Head(ps)[1]), DefinitionLine(Head(ps)[2])>> \o PairLines(Tail(ps))

InitPairs ==
    /\ pairs \in SeqsUpTo(Payloads \X Payloads, MaxPairs)
    /\ lines = <<>>
    /\ raw_text = Join(PairLines(pairs), <<NL>>)
    /\ flashcards = <<>>
    /\ ppc = "ready"
    /\ ChunkerIdle /\ GenIdle /\ ViewerIdle /\ AppIdle

NextPairs == RunParseFlashcards

SpecPairs == InitPairs /\ [][NextPairs]_vars

\* C4 as stated: N alternating Term/Definition lines give back exactly the
\* N pairs, in order, with the same term and definition.
PairsRoundTrip ==
    ppc = "done" =>
        /\ Len(flashcards) = Len(pairs)
        /\ \A i \in 1..Len(pairs) :
              /\ flashcards[i].term = pairs[i][1]
              /\ flashcards[i].definition = pairs[i][2]

\* a value the parser hands back unchanged: non-empty, no markup, no line
\* break, no leading or trailing whitespace
Clean(x) ==
    /\ x # <<>>
    /\ \A i \in 1..Len(x) : x[i] \notin Tags /\ x[i] # NL
    /\ ~IsSpace(x[1])
    /\ ~IsSpace(x[Len(x)])

\* C4 amended: the round trip holds when every X_i and Y_i is clean.
CleanPairsRoundTrip ==
    (ppc = "done" /\ \A i \in 1..Len(pairs) : Clean(pairs[i][1]) /\ Clean(pairs[i][2])) =>
        /\ Len(flashcards) = Len(pairs)
        /\ \A i \in 1..Len(pairs) :
              /\ flashcards[i].term = pairs[i][1]
              /\ flashcards[i].definition = pairs[i][2]

CleanPairsRoundTripWitness ==
    /\ ppc = "done"
    /\ Len(pairs) = 2
    /\ \A i \in 1..Len(pairs) : Clean(pairs[i][1]) /\ Clean(pairs[i][2])
    /\ pairs[1][1] # pairs[2][1]
    /\ pairs[1][1] # pairs[1][2]
    /\ Len(flashcards) = 2

(* inputs of the robustness check: arbitrary short sequences of lines *)
LinePayloads == {<<>>, <<"a">>, <<"b">>}
LineKinds == {"Term", "term", "Definition", "other"}
LineForms == [kind : LineKinds, payload : LinePayloads]

RenderLine(l) ==
    IF l.kind = "Term" THEN TermLine(l.payload)
    ELSE IF l.kind = "term" THEN TermKw \o l.payload
    ELSE IF l.kind = "Definition" THEN DefinitionLine(l.payload)
    ELSE l.payload

RenderLines(ls) == Join([i \in 1..Len(ls) |-> RenderLine(ls[i])], <<NL>>)

IsTermLine(l) == l.kind \in {"Term", "term"}
IsDefinitionLine(l) == l.kind = "Definition"

InitLines ==
    /\ pairs = <<>>
    /\ lines \in SeqsUpTo(LineForms, MaxLines)
    /\ raw_text = RenderLines(lines)
    /\ flashcards = <<>>
    /\ ppc = "ready"
    /\ ChunkerIdle /\ GenIdle /\ ViewerIdle /\ AppIdle

NextLines == RunParseFlashcards

SpecLines == InitLines /\ [][NextLines]_vars

LinePositions == (1..Len(lines)) \X (1..Len(lines))

\* record r is the pairing of term line t with definition line d
PairsUp(r, t, d) ==
    /\ t < d
    /\ IsTermLine(lines[t])
    /\ IsDefinitionLine(lines[d])
    /\ \A k \in (t + 1)..(d - 1) : ~IsTermLine(lines[k])
    /\ r.term = strip(lines[t].payload)
    /\ r.definition = strip(lines[d].payload)

\* C5: every emitted record pairs a term line with a definition line that
\* comes after it and before the next term line, distinct records use
\* distinct term lines in input order; so a definition line before any term
\* line and a term line without a definition line are in no record.
OnlyPairedRecords ==
    ppc = "done" =>
        \E f \in [1..Len(flashcards) -> LinePositions] :
            /\ \A i \in 1..Len(flashcards) : PairsUp(flashcards[i], f[i][1], f[i][2])
            /\ \A i \in 1..(Len(flashcards) - 1) : f[i][1] < f[i + 1][1]

\* a definition line first, then a paired term, then an unpaired trailing term
OnlyPairedRecordsWitness ==
    /\ ppc = "done"
    /\ Len(lines) = 4
    /\ IsDefinitionLine(lines[1])
    /\ IsTermLine(lines[2])
    /\ IsDefinitionLine(lines[3])
    /\ IsTermLine(lines[4])
    /\ lines[1].payload # lines[3].payload
    /\ Len(flashcards) = 1

(* ------------------------- generation pipeline ------------------------- *)
Kinds == {"summary", "qa", "flashcards"}
Levels == {"Beginner", "Intermediate", "Advanced"}

\* the template of an artifact kind and level: the text around {text}
PROMPTS == [k \in Kinds |-> [d \in Levels |->
               [pre |-> <<k, d, "Text: \"\"\"">>, post |-> <<"\"\"\"">>]]]

\* prompt_template.format(text=chunk)
format(template, chunk) == template.pre \o chunk \o template.post

ErrorMarker == <<"Error processing a chunk: ">>

\* the success branch of the try
OnResponse(acc, response_text) == acc \o response_text \o <<NL, NL>>

\* an except clause that lets the error leave the function
OnExceptionReraise(acc, e) == [full_response |-> acc, propagated |-> TRUE]

\* except Exception as e: the error is caught and turned into a marker
OnException(acc, e) ==
    [full_response |-> acc \o ErrorMarker \o e \o <<NL, NL>>, propagated |-> FALSE]

\* a progress value computed from the 0-based index
ProgressValueZeroBased(idx, total) == <<idx, total>>

\* (i + 1) / len(text_chunks), as numerator and denominator
ProgressValue(idx, total) == <<idx + 1, total>>

\* what the generation service may answer, and the messages it may raise
Responses == {<<"r">>, <<"T", "e", "r", "m", ":", "a", NL,
                         "D", "e", "f", "i", "n", "i", "t", "i", "o", "n", ":", "b">>}
ErrorMessages == {<<"quota">>}

\* function entry: lines 108-109 and the loop test
GenEnter ==
    /\ gpc = "entry"
    /\ full_response' = <<>>
    /\ loop_i' = 0
    /\ gpc' = IF Len(text_chunks) = 0 THEN "returned" ELSE "call"
    /\ UNCHANGED <<text_chunks, generation_type, difficulty, propagated, glog>>
    /\ UNCHANGED <<chunkerVars, parserVars, viewerVars, appVars>>

\* model.generate_content(prompt) answers
ServiceReturns ==
    /\ gpc = "call"
    /\ \E r \in Responses :
          /\ glog' = Append(glog, [op |-> "call", idx |-> loop_i,
                                   chunk |-> text_chunks[loop_i + 1],
                                   prompt |-> format(PROMPTS[generation_type][difficulty],
                                                     text_chunks[loop_i + 1]),
                                   ok |-> TRUE, out |-> r])
          /\ full_response' = OnResponse(full_response, r)
    /\ gpc' = "progress"
    /\ UNCHANGED <<text_chunks, generation_type, difficulty, loop_i, propagated>>
    /\ UNCHANGED <<chunkerVars, parserVars, viewerVars, appVars>>

\* model.generate_content(prompt) raises
ServiceRaises ==
    /\ gpc = "call"
    /\ \E e \in ErrorMessages :
          /\ glog' = Append(glog, [op |-> "call", idx |-> loop_i,
                                   chunk |-> text_chunks[loop_i + 1],
                                   prompt |-> format(PROMPTS[generation_type][difficulty],
                                                     text_chunks[loop_i + 1]),
                                   ok |-> FALSE, out |-> e])
          /\ full_response' = OnException(full_response, e).full_response
          /\ propagated' = OnException(full_response, e).propagated
    /\ gpc' = IF propagated' THEN "raised" ELSE "progress"
    /\ UNCHANGED <<text_chunks, generation_type, difficulty, loop_i>>
    /\ UNCHANGED <<chunkerVars, parserVars, viewerVars, appVars>>

\* progress_bar.progress(...), then the next iteration or the return
ReportProgress ==
    /\ gpc = "progress"
    /\ glog' = Append(glog, [op |-> "progress",
                             value |-> ProgressValue(loop_i, Len(text_chunks))])
    /\ loop_i' = loop_i + 1
    /\ gpc' = IF loop_i + 1 < Len(text_chunks) THEN "call" ELSE "returned"
    /\ UNCHANGED <<text_chunks, generation_type, difficulty, full_response, propagated>>
    /\ UNCHANGED <<chunkerVars, parserVars, viewerVars, appVars>>

GenChunkChoices == {<<>>, <<"a", NL>>, <<"b", NL>>}

InitGen ==
    /\ text_chunks \in SeqsUpTo(GenChunkChoices, MaxChunks)
    /\ generation_type \in Kinds
    /\ difficulty \in Levels
    /\ loop_i = 0
    /\ full_response = <<>>
    /\ propagated = FALSE
    /\ glog = <<>>
    /\ gpc = "entry"
    /\ ChunkerIdle /\ ParserIdle /\ ViewerIdle /\ AppIdle

NextGen == GenEnter \/ ServiceReturns \/ ServiceRaises \/ ReportProgress

SpecGen == InitGen /\ [][NextGen]_vars

Calls == SelectSeq(glog, LAMBDA ev : ev.op = "call")
Reports == SelectSeq(glog, LAMBDA ev : ev.op = "progress")

\* the piece of output a service outcome stands for
Piece(ev) ==
    IF ev.ok THEN ev.out \o <<NL, NL>>
    ELSE <<"Error processing a chunk: ">> \o ev.out \o <<NL, NL>>

\* C1: no service error leaves the function; on return the service was
\* called once per chunk, in chunk order, with that chunk's prompt, and the
\* result is the concatenation of one piece per chunk, response or marker.
OnePiecePerChunk ==
    /\ propagated = FALSE
    /\ gpc = "returned" =>
          /\ Len(Calls) = Len(text_chunks)
          /\ \A k \in 1..Len(Calls) :
                /\ Calls[k].idx = k - 1
                /\ Calls[k].prompt =
                       PROMPTS[generation_type][difficulty].pre \o text_chunks[k]
                           \o PROMPTS[generation_type][difficulty].post
          /\ full_response = Flatten([k \in 1..Len(Calls) |-> Piece(Calls[k])])

\* three chunks, the service failing on the second only
OnePiecePerChunkWitness ==
    /\ gpc = "returned"
    /\ Len(text_chunks) = 3
    /\ Len(Calls) = 3
    /\ Calls[1].ok /\ ~Calls[2].ok /\ Calls[3].ok
    /\ Calls[1].out # Calls[3].out

\* C7: on return from a pass over n >= 1 chunks the log alternates call,
\* report; the k-th report carries k/n, so there are n reports, strictly
\* increasing, each between its chunk's call and the next, the last n/n.
ProgressOncePerChunk ==
    (gpc = "returned" /\ Len(text_chunks) >= 1) =>
        /\ Len(Reports) = Len(text_chunks)
        /\ Len(glog) = 2 * Len(text_chunks)
        /\ \A k \in 1..Len(text_chunks) :
              /\ glog[2 * k - 1].op = "call"
              /\ glog[2 * k - 1].idx = k - 1
              /\ glog[2 * k].op = "progress"
              /\ glog[2 * k].value = <<k, Len(text_chunks)>>

ProgressOncePerChunkWitness ==
    /\ gpc = "returned"
    /\ Len(text_chunks) = 3
    /\ Len(Reports) = 3
    /\ \E k \in 1..Len(Calls) : ~Calls[k].ok
    /\ \E k \in 1..Len(Calls) : Calls[k].ok
    /\ Reports[3].value = <<3, 3>>

(* --------------------------- flashcard viewer -------------------------- *)
\* showCard that leaves the flip state alone
showCardKeepFlip(d, dk, index) ==
    IF Len(dk) = 0 THEN d
    ELSE IF index + 1 \notin DOMAIN dk THEN d
    ELSE [front |-> dk[index + 1].term,
          back |-> dk[index + 1].definition,
          is_flipped |-> d.is_flipped,
          counter |-> <<index + 1, Len(dk)>>,
          prev_disabled |-> (index = 0),
          next_disabled |-> (index = Len(dk) - 1)]

\* showCard(index): nothing for an empty deck; reading a card outside the
\* deck throws before anything is drawn
showCard(d, dk, index) ==
    IF Len(dk) = 0 THEN d
    ELSE IF index + 1 \notin DOMAIN dk THEN d
    ELSE [front |-> dk[index + 1].term,
          back |-> dk[index + 1].definition,
          is_flipped |-> FALSE,
          counter |-> <<index + 1, Len(dk)>>,
          prev_disabled |-> (index = 0),
          next_disabled |-> (index = Len(dk) - 1)]

\* a Next guard that lets the index run past the last card
CanGoNextPastEnd(index, dk) == index < Len(dk)

\* the guard of the Next handler
CanGoNext(index, dk) == index < Len(dk) - 1

\* the guard of the Previous handler
CanGoPrev(index, dk) == index > 0

\* click on the card
CardClick ==
    /\ Len(events) < MaxClicks
    /\ dom' = [dom EXCEPT !.is_flipped = ~dom.is_flipped]
    /\ events' = Append(events, "flip")
    /\ UNCHANGED <<deck, currentIndex>>
    /\ UNCHANGED <<chunkerVars, parserVars, genVars, appVars>>

\* click on Previous
PrevClick ==
    /\ Len(events) < MaxClicks
    /\ IF CanGoPrev(currentIndex, deck)
       THEN /\ currentIndex' = currentIndex - 1
            /\ dom' = showCard(dom, deck, currentIndex')
       ELSE UNCHANGED <<currentIndex, dom>>
    /\ events' = Append(events, "prev")
    /\ UNCHANGED deck
    /\ UNCHANGED <<chunkerVars, parserVars, genVars, appVars>>

\* click on Next
NextClick ==
    /\ Len(events) < MaxClicks
    /\ IF CanGoNext(currentIndex, deck)
       THEN /\ currentIndex' = currentIndex + 1
            /\ dom' = showCard(dom, deck, currentIndex')
       ELSE UNCHANGED <<currentIndex, dom>>
    /\ events' = Append(events, "next")
    /\ UNCHANGED deck
    /\ UNCHANGED <<chunkerVars, parserVars, genVars, appVars>>

\* a deck of K cards with distinct terms
DeckOfSize(K) ==
    [k \in 1..K |-> [term |-> [j \in 1..k |-> "a"], definition |-> [j \in 1..k |-> "b"]]]

InitViewer ==
    /\ deck \in {DeckOfSize(K) : K \in 0..MaxDeck}
    /\ currentIndex = 0
    /\ dom = showCard(BlankDom, deck, 0)
    /\ events = <<>>
    /\ ChunkerIdle /\ ParserIdle /\ GenIdle /\ AppIdle

NextViewer == CardClick \/ PrevClick \/ NextClick

SpecViewer == InitViewer /\ [][NextViewer]_vars

Navs == SelectSeq(events, LAMBDA ev : ev # "flip")

\* number of leading "next" events of a navigation sequence
RECURSIVE LeadingNexts(_)
LeadingNexts(nav) ==
    IF nav = <<>> \/ Head(nav) # "next" THEN 0 ELSE 1 + LeadingNexts(Tail(nav))

\* C6: with a non-empty deck of K cards the index stays in 0..K-1; n Next
\* events from the start lead to min(n, K-1); at least K-1 Next events
\* followed by m Previous events lead to max(K-1-m, 0).
IndexStaysInDeck ==
    Len(deck) >= 1 =>
        LET K == Len(deck)
            a == LeadingNexts(Navs)
            b == Len(Navs) - a
        IN  /\ 0 <= currentIndex
            /\ currentIndex < K
            /\ b = 0 => currentIndex = (IF a < K - 1 THEN a ELSE K - 1)
            /\ (a >= K - 1 /\ \A k \in (a + 1)..Len(Navs) : Navs[k] = "prev") =>
                  currentIndex = (IF K - 1 - b > 0 THEN K - 1 - b ELSE 0)

\* K-1 Next events and one more, then K-1 Previous events and one more
IndexStaysInDeckWitness ==
    /\ Len(deck) = 3
    /\ Navs = <<"next", "next", "next", "prev", "prev", "prev">>
    /\ currentIndex = 0

\* C9: a click on the card toggles the flip flag and keeps the index; a step
\* that changes the index leaves the new card's term on the front, unflipped.
FlipIsLocalToCard ==
    [][ /\ (events' # events /\ events'[Len(events')] = "flip") =>
              (currentIndex' = currentIndex /\ dom'.is_flipped = ~dom.is_flipped)
        /\ currentIndex' # currentIndex =>
              (~dom'.is_flipped /\ dom'.front = deck[currentIndex' + 1].term) ]_vars

\* the card was flipped to its back, then Next moved to another card
FlipIsLocalToCardWitness ==
    /\ Len(deck) >= 2
    /\ events = <<"flip", "next">>
    /\ currentIndex = 1
    /\ ~dom.is_flipped

(* ----------------------------- application ----------------------------- *)
DefaultChunkSize == 3000

\* page.extract_text() or ""
OrEmpty(x) == IF Truthy(x) THEN x.val ELSE <<>>

\* text of an uploaded file, by extension
get_text_from_file(f) ==
    IF f.ext = ".pdf"
    THEN Flatten([k \in 1..Len(f.pages) |-> OrEmpty(f.pages[k])])
    ELSE IF f.ext = ".txt"
    THEN f.content
    ELSE IF f.ext = ".csv"
    THEN Join([k \in 1..Len(f.rows) |-> Join(f.rows[k], <<" ">>)], <<" ">>)
    ELSE <<>>

\* an emptiness test that forgets to strip
IsBlankUnstripped(raw) == raw = <<>>

\* not raw_text.strip()
IsBlank(raw) == strip(raw) = <<>>

LongParagraph == [k \in 1..(DefaultChunkSize - 1) |-> "a"]

Pdf(pages) == [ext |-> ".pdf", pages |-> pages, content |-> <<>>, rows |-> <<>>]
Txt(content) == [ext |-> ".txt", pages |-> <<>>, content |-> content, rows |-> <<>>]
Csv(rows) == [ext |-> ".csv", pages |-> <<>>, content |-> <<>>, rows |-> rows]

UploadChoices ==
    { Pdf(<<Some(<<"a", NL>>), None, Some(<<"b">>)>>),
      Pdf(<<None, Some(<<>>)>>),
      Pdf(<<Some(<<" ", NL>>)>>),
      Txt(<<>>),
      Txt(<<" ", NL, " ">>),
      Txt(<<"a", NL, "b">>),
      Txt(LongParagraph),
      Txt(<<"b", NL>> \o LongParagraph),
      Csv(<<<<<<"a">>, <<"b">>>>, <<<<"c">>, <<"d">>>>>>),
      Csv(<<>>),
      [ext |-> ".PDF", pages |-> <<Some(<<"a">>)>>, content |-> <<>>, rows |-> <<>>],
      [ext |-> ".md", pages |-> <<>>, content |-> <<"a">>, rows |-> <<>>] }

InitApp ==
    /\ uploaded_file = NoFile
    /\ apc = "empty"
    /\ error_shown = FALSE
    /\ summaries = <<>>
    /\ qa_pairs = <<>>
    /\ rendered = "nothing"
    /\ ChunkerIdle /\ ParserIdle /\ GenIdle /\ ViewerIdle

\* the user picks a file and a difficulty level
AppUpload ==
    /\ apc = "empty"
    /\ uploaded_file' \in UploadChoices
    /\ difficulty' \in Levels
    /\ apc' = "uploaded"
    /\ UNCHANGED <<error_shown, summaries, qa_pairs, rendered>>
    /\ UNCHANGED <<text_chunks, generation_type, loop_i, full_response,
                   propagated, glog, gpc>>
    /\ UNCHANGED <<chunkerVars, parserVars, viewerVars>>

\* the Generate button: extraction finds no text
AppGenerateNoText ==
    /\ apc = "uploaded"
    /\ text' = get_text_from_file(uploaded_file)
    /\ IsBlank(text')
    /\ error_shown' = TRUE
    /\ apc' = "done"
    /\ UNCHANGED <<chunk_size, chunks, cpc>>
    /\ UNCHANGED <<uploaded_file, summaries, qa_pairs, rendered>>
    /\ UNCHANGED <<parserVars, genVars, viewerVars>>

\* the Generate button: the text is chunked and the summary pass begins
AppGenerate ==
    /\ apc = "uploaded"
    /\ text' = get_text_from_file(uploaded_file)
    /\ ~IsBlank(text')
    /\ chunk_size' = DefaultChunkSize
    /\ chunks' = chunk_text(text', DefaultChunkSize)
    /\ text_chunks' = chunks'
    /\ generation_type' = "summary"
    /\ gpc' = "entry"
    /\ apc' = "summary"
    /\ UNCHANGED cpc
    /\ UNCHANGED <<difficulty, loop_i, full_response, propagated, glog>>
    /\ UNCHANGED <<uploaded_file, error_shown, summaries, qa_pairs, rendered>>
    /\ UNCHANGED <<parserVars, viewerVars>>

\* the summary pass returned; the Q&A pass begins
AppAfterSummary ==
    /\ apc = "summary"
    /\ gpc = "returned"
    /\ summaries' = full_response
    /\ generation_type' = "qa"
    /\ gpc' = "entry"
    /\ apc' = "qa"
    /\ UNCHANGED <<text_chunks, difficulty, loop_i, full_response, propagated, glog>>
    /\ UNCHANGED <<uploaded_file, error_shown, qa_pairs, rendered>>
    /\ UNCHANGED <<chunkerVars, parserVars, viewerVars>>

\* the Q&A pass returned; the flashcard pass begins
AppAfterQa ==
    /\ apc = "qa"
    /\ gpc = "returned"
    /\ qa_pairs' = full_response
    /\ generation_type' = "flashcards"
    /\ gpc' = "entry"
    /\ apc' = "flashcards"
    /\ UNCHANGED <<text_chunks, difficulty, loop_i, full_response, propagated, glog>>
    /\ UNCHANGED <<uploaded_file, error_shown, summaries, rendered>>
    /\ UNCHANGED <<chunkerVars, parserVars, viewerVars>>

\* the flashcard pass returned; cards were parsed and the viewer is shown
AppRenderViewer ==
    /\ apc = "flashcards"
    /\ gpc = "returned"
    /\ raw_text' = full_response
    /\ flashcards' = parse_flashcards(raw_text')
    /\ flashcards' # <<>>
    /\ deck' = flashcards'
    /\ currentIndex' = 0
    /\ dom' = showCard(BlankDom, deck', 0)
    /\ rendered' = "viewer"
    /\ apc' = "done"
    /\ UNCHANGED <<pairs, lines, ppc, events>>
    /\ UNCHANGED <<uploaded_file, error_shown, summaries, qa_pairs>>
    /\ UNCHANGED <<chunkerVars, genVars>>

\* the flashcard pass returned; no card was parsed and the raw text is shown
AppRenderFallback ==
    /\ apc = "flashcards"
    /\ gpc = "returned"
    /\ raw_text' = full_response
    /\ flashcards' = parse_flashcards(raw_text')
    /\ flashcards' = <<>>
    /\ rendered' = "raw"
    /\ apc' = "done"
    /\ UNCHANGED <<pairs, lines, ppc>>
    /\ UNCHANGED <<uploaded_file, error_shown, summaries, qa_pairs>>
    /\ UNCHANGED <<chunkerVars, genVars, viewerVars>>

NextApp ==
    \/ AppUpload \/ AppGenerateNoText \/ AppGenerate
    \/ GenEnter \/ ServiceReturns \/ ServiceRaises \/ ReportProgress
    \/ AppAfterSummary \/ AppAfterQa \/ AppRenderViewer \/ AppRenderFallback

SpecApp == InitApp /\ [][NextApp]_vars

AllSpace(t) == \A k \in 1..Len(t) : IsSpace(t[k])
Supported == {".pdf", ".txt", ".csv"}

\* C8: once the Generate handler has run on a file whose text is empty or
\* all whitespace, and on any file of an unsupported type, the error is
\* shown and nothing was chunked, sent to the service or rendered.
BlankTextStopsPipeline ==
    (apc \notin {"empty", "uploaded"}
        /\ (AllSpace(text) \/ uploaded_file.ext \notin Supported)) =>
        /\ AllSpace(text)
        /\ error_shown
        /\ apc = "done"
        /\ chunks = <<>>
        /\ gpc = "idle"
        /\ glog = <<>>
        /\ rendered = "nothing"

BlankTextStopsPipelineWitness ==
    /\ apc = "done"
    /\ text # <<>>
    /\ AllSpace(text)
    /\ error_shown
    /\ glog = <<>>

\* C10: every chunk handed to the generation service is a non-empty string.
NoEmptyChunkSent ==
    \A k \in 1..Len(glog) :
        glog[k].op = "call" => glog[k].chunk # <<>>
====
